---------------------------- MODULE Spec2Model ----------------------------
(***************************************************************************)
(* Odyssey router (sources/router.c): routing of clients to routes, the    *)
(* per-route client and server pools, and the two-level locking            *)
(* (router->lock, route->lock) that the router operations follow.          *)
(*                                                                         *)
(* Every client is driven by its own task (route, attach, detach, close,   *)
(* unroute); one maintenance task runs the sweeps that hold the router     *)
(* lock from start to end (reconfigure, expire, gc, stat, cancel, kill).   *)
(* A step of the model is the code between two lock operations.            *)
(***************************************************************************)
EXTENDS Integers, Sequences, FiniteSets

(* ------------------------------ bounds -------------------------------- *)
NumClients == 2
MaxServers == 2
MaxRoutes == 2
MaxRules == 2
\* values the configuration is drawn from
MaxClientMax == 1
MaxRouteClientMax == 1
MaxPoolSize == 1
MaxPoolTtl == 1

NULL == 0

Clients == 1..NumClients
ServerIds == 1..MaxServers
RouteIds == 1..MaxRoutes
RuleIds == 1..MaxRules
\* the maintenance task, as a lock holder
Maint == NumClients + 1

VARIABLES
    lock,        \* router->lock: the task holding it, or NULL
    rlock,       \* route->lock of every route object
    clients,     \* router->clients
    config,      \* od_config_t: client_max_set, client_max
    rules,       \* router->rules: every rule object, and the rule forward() matches
    route_pool,  \* router->route_pool: the linked routes, in list order
    routes,      \* the route objects
    cl,          \* the client objects
    sv,          \* the server objects
    pc,          \* position of every client task
    loc,         \* locals of the client task's current call (route, rule, server)
    ret,         \* status returned by the client task's last route/attach call
    sw           \* the maintenance task: operation, routes left to visit, results

vars == <<lock, rlock, clients, config, rules, route_pool, routes, cl, sv, pc, loc, ret, sw>>

(* --------------------------- object shapes ---------------------------- *)
\* od_server_init: a server outside every pool, with no route and no client
ServerInit == [state |-> "undef", route |-> NULL, client |-> NULL,
               idle_time |-> 0, key_client |-> NULL]
\* a server object that od_server_allocate has not handed out yet; with state
\* "freed", one that od_server_free has taken back
ServerNone == [state |-> "none", route |-> NULL, client |-> NULL,
               idle_time |-> 0, key_client |-> NULL]
ClientInit == [state |-> "undef", pool |-> NULL, route |-> NULL, rule |-> NULL,
               server |-> NULL, killed |-> FALSE]
RouteNone == [st |-> "none", rule |-> NULL, dynamic |-> FALSE]
LocInit == [route |-> NULL, rule |-> NULL, server |-> NULL]
\* the maintenance task between two operations; status is what its last
\* od_router_cancel returned
SwIdle == [op |-> "idle", todo |-> <<>>, arg |-> NULL,
           rc |-> 0, count |-> 0, out |-> {}, id |-> NULL, storage |-> NULL,
           status |-> "none"]

\* the wire key of a client: forged unique per client
Key(c) == c

(* ------------------------------ the pools ----------------------------- *)
\* od_client_pool_total: clients linked in the route's pool (pending, active, queue)
od_client_pool_total(r) == Cardinality({c \in Clients : cl[c].pool = r /\ cl[c].state # "undef"})
\* od_client_pool_set: move the client to the state's list of the route's pool
od_client_pool_set(c, r, state) ==
    [state |-> state, pool |-> IF state = "undef" THEN NULL ELSE r]
\* the servers the route's pool links under a state
ServerPool(r, state) == {s \in ServerIds : sv[s].route = r /\ sv[s].state = state}
\* od_server_pool_total: idle and active servers of the route
od_server_pool_total(r) == Cardinality(ServerPool(r, "idle") \cup ServerPool(r, "active"))

(* ------------------------------ the rules ----------------------------- *)
\* od_rules_forward: the installed, not obsolete rule matching the startup pair
od_rules_forward == rules.installed
\* od_rules_ref
od_rules_ref(rs, r) == [rs EXCEPT !.obj[r].ref = @ + 1]
\* od_rules_unref: the rule is freed when the last reference goes
od_rules_unref(rs, r) ==
    [rs EXCEPT !.obj[r].ref = @ - 1,
               !.obj[r].freed = (rs.obj[r].ref - 1 = 0)]
\* od_route_pool_match: the linked route of this id and rule
od_route_pool_match(rule) ==
    LET m == {i \in 1..Len(route_pool) : routes[route_pool[i]].rule = rule}
    IN IF m = {} THEN NULL ELSE route_pool[CHOOSE i \in m : \A j \in m : i <= j]
\* the next route object od_route_pool_new allocates, NULL when memory is out
NextRoute ==
    LET free == {r \in RouteIds : routes[r].st = "none"}
    IN IF free = {} THEN NULL ELSE CHOOSE r \in free : \A q \in free : r <= q
\* the next server object od_server_allocate hands out, NULL when memory is out
od_server_allocate ==
    LET free == {s \in ServerIds : sv[s].state = "none"}
    IN IF free = {} THEN NULL ELSE CHOOSE s \in free : \A q \in free : s <= q

(* -------------------------------- Init -------------------------------- *)
\* the rule a reconfigure installs differs from the one it replaces in its
\* pool_ttl: on for the first rule, off for the next, and so on
PoolTtl(r) == IF r % 2 = 1 THEN MaxPoolTtl ELSE 0

\* a route installed directly by the configuration: not dynamic, and holding
\* one reference on its rule
RouteInstalled(rule) == [st |-> "live", rule |-> rule, dynamic |-> FALSE]

\* od_router_init, and a configuration with one installed rule, with or without
\* a route installed for it
Init ==
    /\ lock = NULL
    /\ rlock = [r \in RouteIds |-> NULL]
    /\ clients = 0
    /\ \E cms \in BOOLEAN :
         config = [client_max_set |-> cms, client_max |-> MaxClientMax]
    /\ \E ps \in {0, MaxPoolSize}, rms \in BOOLEAN, installed \in BOOLEAN :
         /\ rules = [installed |-> 1, count |-> 1,
                     obj |-> [r \in RuleIds |->
                               [obsolete |-> FALSE,
                                ref |-> IF installed /\ r = 1 THEN 1 ELSE 0,
                                freed |-> FALSE,
                                pool_size |-> ps, pool_ttl |-> PoolTtl(r),
                                client_max_set |-> rms,
                                client_max |-> MaxRouteClientMax]]]
         /\ route_pool = IF installed THEN <<1>> ELSE <<>>
         /\ routes = [r \in RouteIds |->
                        IF installed /\ r = 1 THEN RouteInstalled(1) ELSE RouteNone]
    /\ cl = [c \in Clients |-> ClientInit]
    /\ sv = [s \in ServerIds |-> ServerNone]
    /\ pc = [c \in Clients |-> "start"]
    /\ loc = [c \in Clients |-> LocInit]
    /\ ret = [c \in Clients |-> "none"]
    /\ sw = SwIdle

(* --------------------------- od_router_route -------------------------- *)
\* router.c:210 od_router_lock
od_router_route_lock(c) ==
    /\ pc[c] = "start"
    /\ lock = NULL
    /\ lock' = c
    /\ pc' = [pc EXCEPT ![c] = "route_match"]
    /\ UNCHANGED <<rlock, clients, config, rules, route_pool, routes, cl, sv, loc, ret, sw>>

\* the global check taken one client late
GlobalLimit_gt == config.client_max_set /\ clients > config.client_max

\* router.c:239 the global client_max check
GlobalLimit == config.client_max_set /\ clients >= config.client_max

\* router.c:212-255 match the rule, check the global limit, match or create the
\* route, reserve the client (clients++, rule ref); all under the router lock
od_router_route_match(c) ==
    /\ pc[c] = "route_match"
    /\ LET rule == od_rules_forward
           found == IF rule = NULL THEN NULL ELSE od_route_pool_match(rule)
           route == IF found # NULL THEN found ELSE NextRoute
       IN IF rule = NULL
          THEN /\ lock' = NULL
               /\ ret' = [ret EXCEPT ![c] = "ERROR_NOT_FOUND"]
               /\ pc' = [pc EXCEPT ![c] = "done"]
               /\ UNCHANGED <<clients, rules, route_pool, routes, loc>>
          ELSE IF GlobalLimit
          THEN /\ lock' = NULL
               /\ ret' = [ret EXCEPT ![c] = "ERROR_LIMIT"]
               /\ pc' = [pc EXCEPT ![c] = "done"]
               /\ UNCHANGED <<clients, rules, route_pool, routes, loc>>
          ELSE IF route = NULL
          THEN /\ lock' = NULL
               /\ ret' = [ret EXCEPT ![c] = "ERROR"]
               /\ pc' = [pc EXCEPT ![c] = "done"]
               /\ UNCHANGED <<clients, rules, route_pool, routes, loc>>
          ELSE /\ IF found = NULL
                  THEN /\ routes' = [routes EXCEPT ![route] =
                                       [st |-> "live", rule |-> rule, dynamic |-> TRUE]]
                       /\ route_pool' = Append(route_pool, route)
                  ELSE UNCHANGED <<routes, route_pool>>
               /\ clients' = clients + 1
               /\ rules' = od_rules_ref(rules, rule)
               /\ loc' = [loc EXCEPT ![c].route = route, ![c].rule = rule]
               /\ pc' = [pc EXCEPT ![c] = "route_handoff"]
               /\ UNCHANGED <<lock, ret>>
    /\ UNCHANGED <<rlock, config, cl, sv, sw>>

\* router.c:257-258 take the route lock, then drop the router lock
od_router_route_handoff(c) ==
    /\ pc[c] = "route_handoff"
    /\ rlock[loc[c].route] = NULL
    /\ rlock' = [rlock EXCEPT ![loc[c].route] = c]
    /\ lock' = NULL
    /\ pc' = [pc EXCEPT ![c] = "route_admit"]
    /\ UNCHANGED <<clients, config, rules, route_pool, routes, cl, sv, loc, ret, sw>>

\* the route check taken one client late
RouteLimit_gt(route, rule) ==
    /\ rules.obj[rule].client_max_set
    /\ od_client_pool_total(route) > rules.obj[rule].client_max

\* router.c:261-262 the route client_max check
RouteLimit(route, rule) ==
    /\ rules.obj[rule].client_max_set
    /\ od_client_pool_total(route) >= rules.obj[rule].client_max

\* router.c:260-277 under the route lock: refuse the client on the route limit,
\* else link it into the client pool as pending
od_router_route_admit(c) ==
    /\ pc[c] = "route_admit"
    /\ LET route == loc[c].route
           rule == loc[c].rule
       IN /\ rlock' = [rlock EXCEPT ![route] = NULL]
          /\ IF RouteLimit(route, rule)
             THEN /\ pc' = [pc EXCEPT ![c] = "route_rollback"]
                  /\ UNCHANGED <<cl, loc, ret>>
             ELSE /\ cl' = [cl EXCEPT ![c] = [@ EXCEPT
                              !.state = od_client_pool_set(c, route, "pending").state,
                              !.pool = od_client_pool_set(c, route, "pending").pool,
                              !.rule = rule,
                              !.route = route]]
                  /\ loc' = [loc EXCEPT ![c] = LocInit]
                  /\ ret' = [ret EXCEPT ![c] = "OK"]
                  /\ pc' = [pc EXCEPT ![c] = "routed"]
    /\ UNCHANGED <<lock, clients, config, rules, route_pool, routes, sv, sw>>

\* a rollback that forgets od_rules_unref
od_router_route_rollback_noref(c) ==
    /\ pc[c] = "route_rollback"
    /\ lock = NULL
    /\ clients' = clients - 1
    /\ loc' = [loc EXCEPT ![c] = LocInit]
    /\ ret' = [ret EXCEPT ![c] = "ERROR_LIMIT_ROUTE"]
    /\ pc' = [pc EXCEPT ![c] = "done"]
    /\ UNCHANGED <<lock, rlock, config, rules, route_pool, routes, cl, sv, sw>>

\* router.c:264-268 give the reservation back under the router lock
od_router_route_rollback(c) ==
    /\ pc[c] = "route_rollback"
    /\ lock = NULL
    /\ clients' = clients - 1
    /\ rules' = od_rules_unref(rules, loc[c].rule)
    /\ loc' = [loc EXCEPT ![c] = LocInit]
    /\ ret' = [ret EXCEPT ![c] = "ERROR_LIMIT_ROUTE"]
    /\ pc' = [pc EXCEPT ![c] = "done"]
    /\ UNCHANGED <<lock, rlock, config, route_pool, routes, cl, sv, sw>>

(* -------------------------- od_router_unroute ------------------------- *)
\* an unroute that forgets clients--
od_router_unroute_count_nodec(c) ==
    /\ pc[c] = "routed"
    /\ cl[c].route # NULL /\ cl[c].server = NULL
    /\ lock = NULL
    /\ clients > 0
    /\ ret' = [ret EXCEPT ![c] = "none"]
    /\ pc' = [pc EXCEPT ![c] = "unroute_pool"]
    /\ UNCHANGED <<lock, rlock, clients, config, rules, route_pool, routes, cl, sv, loc, sw>>

\* router.c:287-290 under the router lock: clients--
od_router_unroute_count(c) ==
    /\ pc[c] = "routed"
    /\ cl[c].route # NULL /\ cl[c].server = NULL
    /\ lock = NULL
    /\ clients > 0
    /\ clients' = clients - 1
    /\ ret' = [ret EXCEPT ![c] = "none"]
    /\ pc' = [pc EXCEPT ![c] = "unroute_pool"]
    /\ UNCHANGED <<lock, rlock, config, rules, route_pool, routes, cl, sv, loc, sw>>

\* router.c:292-296 under the route lock: unlink the client, clear client->route
\* (the client is closed: no kill is pending on it any more)
od_router_unroute_pool(c) ==
    /\ pc[c] = "unroute_pool"
    /\ rlock[cl[c].route] = NULL
    /\ cl' = [cl EXCEPT ![c] = [@ EXCEPT
                !.state = od_client_pool_set(c, cl[c].route, "undef").state,
                !.pool = od_client_pool_set(c, cl[c].route, "undef").pool,
                !.route = NULL,
                !.killed = FALSE]]
    /\ pc' = [pc EXCEPT ![c] = "done"]
    /\ UNCHANGED <<lock, rlock, clients, config, rules, route_pool, routes, sv, loc, ret, sw>>

(* --------------------------- od_router_attach ------------------------- *)
\* router.c:304-307 od_route_lock(client->route)
od_router_attach_lock(c) ==
    /\ pc[c] = "routed"
    /\ cl[c].route # NULL /\ cl[c].server = NULL
    /\ rlock[cl[c].route] = NULL
    /\ rlock' = [rlock EXCEPT ![cl[c].route] = c]
    /\ ret' = [ret EXCEPT ![c] = "none"]
    /\ pc' = [pc EXCEPT ![c] = "attach_next"]
    /\ UNCHANGED <<lock, clients, config, rules, route_pool, routes, cl, sv, loc, sw>>

\* router.c:313-315 od_server_pool_next(IDLE): an idle server goes to attach:
od_router_attach_next(c) ==
    /\ pc[c] = "attach_next"
    /\ LET idle == ServerPool(cl[c].route, "idle")
       IN \/ \E s \in idle :
               /\ loc' = [loc EXCEPT ![c].server = s]
               /\ pc' = [pc EXCEPT ![c] = "attach_set"]
          \/ /\ idle = {}
             /\ pc' = [pc EXCEPT ![c] = "attach_check"]
             /\ UNCHANGED loc
    /\ UNCHANGED <<lock, rlock, clients, config, rules, route_pool, routes, cl, sv, ret, sw>>

\* a break that goes on to allocate with the route lock still held
od_router_attach_check_locked(c) ==
    /\ pc[c] = "attach_check"
    /\ IF rules.obj[routes[cl[c].route].rule].pool_size = 0
       THEN pc' = [pc EXCEPT ![c] = "attach_alloc"]
       ELSE pc' = [pc EXCEPT ![c] = "attach_next"]
    /\ UNCHANGED <<lock, rlock, clients, config, rules, route_pool, routes, cl, sv, loc, ret, sw>>

\* router.c:317-328 pool_size == 0 breaks out of the loop and drops the route
\* lock; any other pool_size goes round the for (;;) again, the lock still held
od_router_attach_check(c) ==
    /\ pc[c] = "attach_check"
    /\ IF rules.obj[routes[cl[c].route].rule].pool_size = 0
       THEN /\ rlock' = [rlock EXCEPT ![cl[c].route] = NULL]
            /\ pc' = [pc EXCEPT ![c] = "attach_alloc"]
       ELSE /\ pc' = [pc EXCEPT ![c] = "attach_next"]
            /\ UNCHANGED rlock
    /\ UNCHANGED <<lock, clients, config, rules, route_pool, routes, cl, sv, loc, ret, sw>>

\* router.c:330-337 od_server_allocate and the new server's fields, no lock held
od_router_attach_alloc(c) ==
    /\ pc[c] = "attach_alloc"
    /\ LET server == od_server_allocate
       IN IF server = NULL
          THEN /\ ret' = [ret EXCEPT ![c] = "ERROR"]
               /\ pc' = [pc EXCEPT ![c] = "routed"]
               /\ UNCHANGED <<sv, loc>>
          ELSE /\ sv' = [sv EXCEPT ![server] = [ServerInit EXCEPT !.route = cl[c].route]]
               /\ loc' = [loc EXCEPT ![c].server = server]
               /\ pc' = [pc EXCEPT ![c] = "attach_relock"]
               /\ UNCHANGED ret
    /\ UNCHANGED <<lock, rlock, clients, config, rules, route_pool, routes, cl, sw>>

\* router.c:339 od_route_lock again
od_router_attach_relock(c) ==
    /\ pc[c] = "attach_relock"
    /\ rlock[cl[c].route] = NULL
    /\ rlock' = [rlock EXCEPT ![cl[c].route] = c]
    /\ pc' = [pc EXCEPT ![c] = "attach_set"]
    /\ UNCHANGED <<lock, clients, config, rules, route_pool, routes, cl, sv, loc, ret, sw>>

\* router.c:344-347 attach: server and client go ACTIVE, the route lock is dropped
od_router_attach_set(c) ==
    /\ pc[c] = "attach_set"
    /\ sv' = [sv EXCEPT ![loc[c].server].state = "active"]
    /\ cl' = [cl EXCEPT ![c].state = od_client_pool_set(c, cl[c].route, "active").state]
    /\ rlock' = [rlock EXCEPT ![cl[c].route] = NULL]
    /\ pc' = [pc EXCEPT ![c] = "attach_link"]
    /\ UNCHANGED <<lock, clients, config, rules, route_pool, routes, loc, ret, sw>>

\* router.c:349-358 after the unlock: cross-link client and server, reset
\* idle_time, record the client's key, attach the io
od_router_attach_link(c) ==
    /\ pc[c] = "attach_link"
    /\ cl' = [cl EXCEPT ![c].server = loc[c].server]
    /\ sv' = [sv EXCEPT ![loc[c].server] = [@ EXCEPT !.client = c,
                                                      !.idle_time = 0,
                                                      !.key_client = Key(c)]]
    /\ loc' = [loc EXCEPT ![c] = LocInit]
    /\ ret' = [ret EXCEPT ![c] = "OK"]
    /\ pc' = [pc EXCEPT ![c] = "attached"]
    /\ UNCHANGED <<lock, rlock, clients, config, rules, route_pool, routes, sw>>

(* --------------------------- od_router_detach ------------------------- *)
\* router.c:365-371 read client->server, detach its io; no lock held
od_router_detach_io(c) ==
    /\ pc[c] = "attached"
    /\ cl[c].server # NULL
    /\ loc' = [loc EXCEPT ![c].server = cl[c].server]
    /\ ret' = [ret EXCEPT ![c] = "none"]
    /\ pc' = [pc EXCEPT ![c] = "detach_pool"]
    /\ UNCHANGED <<lock, rlock, clients, config, rules, route_pool, routes, cl, sv, sw>>

\* a detach that moves the client to PENDING and leaves the server ACTIVE
od_router_detach_pool_client(c) ==
    /\ pc[c] = "detach_pool"
    /\ rlock[cl[c].route] = NULL
    /\ cl' = [cl EXCEPT ![c] = [@ EXCEPT
                !.server = NULL,
                !.state = od_client_pool_set(c, cl[c].route, "pending").state]]
    /\ sv' = [sv EXCEPT ![loc[c].server] = [@ EXCEPT !.client = NULL]]
    /\ loc' = [loc EXCEPT ![c] = LocInit]
    /\ pc' = [pc EXCEPT ![c] = "routed"]
    /\ UNCHANGED <<lock, rlock, clients, config, rules, route_pool, routes, ret, sw>>

\* router.c:373-389 under the route lock: unlink, server IDLE, client PENDING
od_router_detach_pool(c) ==
    /\ pc[c] = "detach_pool"
    /\ rlock[cl[c].route] = NULL
    /\ cl' = [cl EXCEPT ![c] = [@ EXCEPT
                !.server = NULL,
                !.state = od_client_pool_set(c, cl[c].route, "pending").state]]
    /\ sv' = [sv EXCEPT ![loc[c].server] = [@ EXCEPT !.client = NULL, !.state = "idle"]]
    /\ loc' = [loc EXCEPT ![c] = LocInit]
    /\ pc' = [pc EXCEPT ![c] = "routed"]
    /\ UNCHANGED <<lock, rlock, clients, config, rules, route_pool, routes, ret, sw>>

(* --------------------------- od_router_close -------------------------- *)
\* router.c:396-400 od_backend_close_connection(client->server); no lock held
od_router_close_backend(c) ==
    /\ pc[c] = "attached"
    /\ cl[c].server # NULL
    /\ loc' = [loc EXCEPT ![c].server = cl[c].server]
    /\ ret' = [ret EXCEPT ![c] = "none"]
    /\ pc' = [pc EXCEPT ![c] = "close_pool"]
    /\ UNCHANGED <<lock, rlock, clients, config, rules, route_pool, routes, cl, sv, sw>>

\* router.c:402-414 under the route lock: client PENDING, server UNDEF and
\* unlinked from client and route; then od_server_free
od_router_close_pool(c) ==
    /\ pc[c] = "close_pool"
    /\ rlock[cl[c].route] = NULL
    /\ cl' = [cl EXCEPT ![c] = [@ EXCEPT
                !.server = NULL,
                !.state = od_client_pool_set(c, cl[c].route, "pending").state]]
    /\ sv' = [sv EXCEPT ![loc[c].server] = [ServerNone EXCEPT !.state = "freed"]]
    /\ loc' = [loc EXCEPT ![c] = LocInit]
    /\ pc' = [pc EXCEPT ![c] = "routed"]
    /\ UNCHANGED <<lock, rlock, clients, config, rules, route_pool, routes, ret, sw>>

(* ------------------------- the maintenance task ----------------------- *)
\* od_route_pool_foreach: the routes are visited in list order; a callback
\* that returns nonzero ends the walk
Visit(rc) == IF rc # 0 THEN <<>> ELSE Tail(sw.todo)

\* router.c:43 od_router_foreach takes the router lock and starts the walk
od_router_foreach(op, arg) ==
    /\ sw.op = "idle"
    /\ lock = NULL
    /\ lock' = Maint
    /\ sw' = [SwIdle EXCEPT !.op = op, !.todo = route_pool, !.arg = arg]

\* router.c:46-47 the walk is over: drop the router lock, return rc
od_router_foreach_unlock ==
    /\ sw.op \in {"expire", "gc", "kill"}
    /\ sw.todo = <<>>
    /\ lock' = NULL
    /\ sw' = SwIdle
    /\ UNCHANGED <<rlock, clients, config, rules, route_pool, routes, cl, sv, pc, loc, ret>>

(* ------------------------- od_router_reconfigure ---------------------- *)
\* the rule sets a reconfigure is given: "same" is the installed set again,
\* "next" a set holding one new rule for the clients' startup pair, "empty" no
\* rule, "other" the installed set less a rule of a startup pair that none of
\* the clients here asks for
NewRules == {"same", "next", "empty", "other"}

\* od_rules_merge: install new_rules in place of the installed set. A rule left
\* out becomes obsolete; the result counts the rules whose obsolescence changed.
\* rules.count numbers the rule sets installed so far; rule set k holds rule k.
od_rules_merge(rs, new_rules) ==
    LET old == rs.installed
        obsoleted == IF old = NULL THEN rs.obj
                     ELSE [rs.obj EXCEPT ![old].obsolete = TRUE]
        given_up == IF old = NULL THEN 0 ELSE 1
    IN CASE new_rules = "same" -> [rules |-> rs, updates |-> 0]
         [] new_rules = "next" ->
              [rules |-> [installed |-> rs.count + 1, count |-> rs.count + 1,
                          obj |-> obsoleted],
               updates |-> given_up]
         [] new_rules = "empty" ->
              [rules |-> [installed |-> NULL, count |-> rs.count + 1, obj |-> obsoleted],
               updates |-> given_up]
         [] new_rules = "other" -> [rules |-> rs, updates |-> 1]

\* router.c:65-73 under the router lock: merge, and walk the routes if updates > 0
od_router_reconfigure(new_rules) ==
    /\ sw.op = "idle"
    /\ lock = NULL
    /\ new_rules \in {"next", "empty"} => rules.count < MaxRules
    /\ LET m == od_rules_merge(rules, new_rules)
       IN /\ rules' = m.rules
          /\ sw' = [SwIdle EXCEPT !.op = "reconfigure",
                                  !.todo = IF m.updates > 0 THEN route_pool ELSE <<>>,
                                  !.count = m.updates]
    /\ lock' = Maint
    /\ UNCHANGED <<rlock, clients, config, route_pool, routes, cl, sv, pc, loc, ret>>

\* od_route_kill_client_pool: every client of the route's pool is told to close
od_route_kill_client_pool(r) ==
    [c \in Clients |-> IF cl[c].pool = r /\ cl[c].state # "undef"
                       THEN [cl[c] EXCEPT !.killed = TRUE] ELSE cl[c]]

\* a sweep that kills the client pool of every route
od_router_kill_clients_cb_all ==
    /\ sw.op = "reconfigure"
    /\ sw.todo # <<>>
    /\ rlock[Head(sw.todo)] = NULL
    /\ cl' = od_route_kill_client_pool(Head(sw.todo))
    /\ sw' = [sw EXCEPT !.todo = Visit(0)]
    /\ UNCHANGED <<lock, rlock, clients, config, rules, route_pool, routes, sv, pc, loc, ret>>

\* router.c:50-60 od_router_kill_clients_cb: a route of an obsolete rule has
\* its client pool killed under the route lock
od_router_kill_clients_cb ==
    /\ sw.op = "reconfigure"
    /\ sw.todo # <<>>
    /\ LET route == Head(sw.todo)
       IN IF ~rules.obj[routes[route].rule].obsolete
          THEN UNCHANGED cl
          ELSE /\ rlock[route] = NULL
               /\ cl' = od_route_kill_client_pool(route)
    /\ sw' = [sw EXCEPT !.todo = Visit(0)]
    /\ UNCHANGED <<lock, rlock, clients, config, rules, route_pool, routes, sv, pc, loc, ret>>

\* router.c:75-76 drop the router lock, return updates
od_router_reconfigure_unlock ==
    /\ sw.op = "reconfigure"
    /\ sw.todo = <<>>
    /\ lock' = NULL
    /\ sw' = SwIdle
    /\ UNCHANGED <<rlock, clients, config, rules, route_pool, routes, cl, sv, pc, loc, ret>>

(* ---------------------------- od_router_expire ------------------------ *)
\* router.c:143-148 count = 0, walk the routes
od_router_expire ==
    /\ od_router_foreach("expire", NULL)
    /\ UNCHANGED <<rlock, clients, config, rules, route_pool, routes, cl, sv, pc, loc, ret>>

\* a server that left the pools for the expire list: the router holds no
\* pointer to it any more, the caller of od_router_expire closes it
ServerExpired == [ServerInit EXCEPT !.state = "undef"]

\* a tick that keeps a server one sweep longer (idle_time <= pool_ttl)
od_router_expire_server_tick_cb_le(s, ttl) ==
    IF sv[s].idle_time <= ttl
    THEN [sv[s] EXCEPT !.idle_time = @ + 1]
    ELSE ServerExpired

\* router.c:89-110 od_router_expire_server_tick_cb on one idle server
od_router_expire_server_tick_cb(s, ttl) ==
    IF sv[s].idle_time < ttl
    THEN [sv[s] EXCEPT !.idle_time = @ + 1]
    ELSE ServerExpired

\* router.c:112-141 od_router_expire_cb, under the route lock. The idle servers
\* of an obsolete rule's route without clients are appended to the expire list
\* (od_router_expire_server_cb, router.c:79-87, leaves them in the pool); else
\* with a pool_ttl every idle server ticks or expires
od_router_expire_cb ==
    /\ sw.op = "expire"
    /\ sw.todo # <<>>
    /\ LET route == Head(sw.todo)
           rule == rules.obj[routes[route].rule]
           idle == ServerPool(route, "idle")
           expired == {s \in idle : sv[s].idle_time >= rule.pool_ttl}
       IN /\ rlock[route] = NULL
          /\ IF rule.obsolete /\ od_client_pool_total(route) = 0
             THEN /\ sw' = [sw EXCEPT !.todo = Visit(0),
                                      !.out = @ \cup idle,
                                      !.count = @ + Cardinality(idle)]
                  /\ UNCHANGED sv
             ELSE IF rule.pool_ttl = 0
             THEN /\ sw' = [sw EXCEPT !.todo = Visit(0)]
                  /\ UNCHANGED sv
             ELSE /\ sv' = [s \in ServerIds |->
                              IF s \in idle
                              THEN od_router_expire_server_tick_cb(s, rule.pool_ttl)
                              ELSE sv[s]]
                  /\ sw' = [sw EXCEPT !.todo = Visit(0),
                                      !.out = @ \cup expired,
                                      !.count = @ + Cardinality(expired)]
    /\ UNCHANGED <<lock, rlock, clients, config, rules, route_pool, routes, cl, pc, loc, ret>>

(* ------------------------------ od_router_gc -------------------------- *)
\* router.c:181-186
od_router_gc ==
    /\ od_router_foreach("gc", NULL)
    /\ UNCHANGED <<rlock, clients, config, rules, route_pool, routes, cl, sv, pc, loc, ret>>

\* od_list_unlink of a route
Unlink(pool, r) == SelectSeq(pool, LAMBDA x : x # r)

\* a test that lets a route go whatever its rule and its kind
od_router_gc_cb_done_empty(route) ==
    od_server_pool_total(route) > 0 \/ od_client_pool_total(route) > 0

\* a test that does not look at the client pool
od_router_gc_cb_done_servers(route) ==
    \/ od_server_pool_total(route) > 0
    \/ ~routes[route].dynamic /\ ~rules.obj[routes[route].rule].obsolete

\* router.c:158-163 the two tests of od_router_gc_cb that go to done: the route
\* has a server or a client, or it is neither dynamic nor of an obsolete rule
od_router_gc_cb_done(route) ==
    \/ od_server_pool_total(route) > 0 \/ od_client_pool_total(route) > 0
    \/ ~routes[route].dynamic /\ ~rules.obj[routes[route].rule].obsolete

\* router.c:152-179 od_router_gc_cb, under the route lock: an empty route that
\* is dynamic or of an obsolete rule is unlinked, its rule unreferenced, and freed
od_router_gc_cb ==
    /\ sw.op = "gc"
    /\ sw.todo # <<>>
    /\ LET route == Head(sw.todo)
       IN /\ rlock[route] = NULL
          /\ IF od_router_gc_cb_done(route)
             THEN UNCHANGED <<route_pool, routes, rules>>
             ELSE /\ route_pool' = Unlink(route_pool, route)
                  /\ rules' = od_rules_unref(rules, routes[route].rule)
                  /\ routes' = [routes EXCEPT ![route].st = "freed"]
    /\ sw' = [sw EXCEPT !.todo = Visit(0)]
    /\ UNCHANGED <<lock, rlock, clients, config, cl, sv, pc, loc, ret>>

(* ----------------------------- od_router_stat ------------------------- *)
\* router.c:188-199 od_route_pool_stat under the router lock
od_router_stat ==
    /\ sw.op = "idle"
    /\ lock = NULL
    /\ sw' = SwIdle
    /\ UNCHANGED <<lock, rlock, clients, config, rules, route_pool, routes, cl, sv, pc, loc, ret>>

(* ---------------------------- od_router_cancel ------------------------ *)
\* router.c:447-453 walk the routes with the key
od_router_cancel(key) ==
    /\ od_router_foreach("cancel", key)
    /\ UNCHANGED <<rlock, clients, config, rules, route_pool, routes, cl, sv, pc, loc, ret>>

\* router.c:417-421 od_router_cancel_cmp: kiwi_key_cmp of server->key_client
od_router_cancel_cmp(s, key) == sv[s].key_client = key

\* router.c:423-445 od_router_cancel_cb, under the route lock: an ACTIVE server
\* whose key_client compares equal gives id, key and a copy of the storage;
\* od_rules_storage_copy returns the copy, or NULL when memory is out
od_router_cancel_cb ==
    /\ sw.op = "cancel"
    /\ sw.todo # <<>>
    /\ LET route == Head(sw.todo)
           match == {s \in ServerPool(route, "active") : od_router_cancel_cmp(s, sw.arg)}
       IN /\ rlock[route] = NULL
          /\ \/ /\ match = {}
                /\ sw' = [sw EXCEPT !.todo = Visit(0)]
             \/ \E s \in match :
                  sw' = [sw EXCEPT !.todo = Visit(1), !.rc = 1, !.id = s,
                                   !.storage = routes[route].rule]
             \/ \E s \in match :
                  sw' = [sw EXCEPT !.todo = Visit(-1), !.rc = -1, !.id = s,
                                   !.storage = NULL]
    /\ UNCHANGED <<lock, rlock, clients, config, rules, route_pool, routes, cl, sv, pc, loc, ret>>

\* a return that takes only a failure (rc < 0) for ERROR_NOT_FOUND
od_router_cancel_status_lt(rc) == IF rc < 0 THEN "ERROR_NOT_FOUND" ELSE "OK"

\* router.c:454-456 rc <= 0 is ERROR_NOT_FOUND, else OK
od_router_cancel_status(rc) == IF rc <= 0 THEN "ERROR_NOT_FOUND" ELSE "OK"

\* router.c:453-457 the walk is over: drop the router lock, return the status
od_router_cancel_unlock ==
    /\ sw.op = "cancel"
    /\ sw.todo = <<>>
    /\ lock' = NULL
    /\ sw' = [SwIdle EXCEPT !.status = od_router_cancel_status(sw.rc)]
    /\ UNCHANGED <<rlock, clients, config, rules, route_pool, routes, cl, sv, pc, loc, ret>>

(* ----------------------------- od_router_kill ------------------------- *)
\* router.c:468-473 walk the routes with the client id
od_router_kill(id) ==
    /\ od_router_foreach("kill", id)
    /\ UNCHANGED <<rlock, clients, config, rules, route_pool, routes, cl, sv, pc, loc, ret>>

\* od_route_kill_client: the client of this id, if the route's pool holds it,
\* is told to close
od_route_kill_client(r, id) ==
    [c \in Clients |-> IF c = id /\ cl[c].pool = r /\ cl[c].state # "undef"
                       THEN [cl[c] EXCEPT !.killed = TRUE] ELSE cl[c]]

\* router.c:459-466 od_router_kill_cb, under the route lock
od_router_kill_cb ==
    /\ sw.op = "kill"
    /\ sw.todo # <<>>
    /\ rlock[Head(sw.todo)] = NULL
    /\ cl' = od_route_kill_client(Head(sw.todo), sw.arg)
    /\ sw' = [sw EXCEPT !.todo = Visit(0)]
    /\ UNCHANGED <<lock, rlock, clients, config, rules, route_pool, routes, sv, pc, loc, ret>>

(* --------------------------- what is claimed -------------------------- *)
\* the clients linked in some route's client pool
Held == {c \in Clients : cl[c].pool # NULL /\ cl[c].state # "undef"}
\* route calls past clients++ (router.c:254) whose client is neither linked
\* (router.c:272) nor given back (router.c:265) yet
Reserved == {c \in Clients : pc[c] \in {"route_handoff", "route_admit", "route_rollback"}}
\* unroute calls past clients-- (router.c:289) whose client is still linked
Leaving == {c \in Clients : pc[c] = "unroute_pool"}
\* the locks a task holds
HoldsLock(t) == lock = t \/ \E r \in RouteIds : rlock[r] = t

\* C2 as claimed: in every reachable state router.clients is the number of
\* clients linked in the client pools
C2_CounterBalance == clients = Cardinality(Held)

\* C2 as amended: router.clients is the number of linked clients, plus the
\* route calls that have reserved and not yet linked or given back, minus the
\* unroute calls that have counted down and not yet unlinked; so the two are
\* equal whenever no route or unroute call is between its two halves
C2_CounterBalanceAmended ==
    /\ clients = Cardinality(Held) + Cardinality(Reserved) - Cardinality(Leaving)
    /\ (Reserved = {} /\ Leaving = {}) => clients = Cardinality(Held)

\* C2 witness: one client was routed and unrouted, another is still routed,
\* and no call is in progress
C2_Witness ==
    /\ Reserved = {} /\ Leaving = {}
    /\ \E c \in Clients : pc[c] = "done" /\ ret[c] = "none"
    /\ \E c \in Clients : pc[c] = "routed"
    /\ clients = 1

\* C3: with config.client_max_set router.clients never exceeds
\* config.client_max, and a route call that finds clients >= client_max
\* returns ERROR_LIMIT and changes neither clients, nor a refcount, nor a pool
C3_GlobalCap ==
    /\ [](config.client_max_set => clients <= config.client_max)
    /\ [][\A c \in Clients :
            (/\ pc[c] = "route_match" /\ pc'[c] # "route_match"
             /\ od_rules_forward # NULL
             /\ config.client_max_set /\ clients >= config.client_max)
            => (/\ ret'[c] = "ERROR_LIMIT"
                /\ pc'[c] = "done"
                /\ UNCHANGED <<clients, rules, cl, routes, route_pool>>)]_vars

\* C3 witness: the cap is reached and a client was refused with ERROR_LIMIT
C3_Witness ==
    /\ config.client_max_set /\ clients = config.client_max
    /\ \E c \in Clients : ret[c] = "ERROR_LIMIT"

\* C4: with rule.client_max_set no route's client pool ever holds more than
\* rule.client_max clients
C4_RouteCap ==
    \A r \in RouteIds :
        (routes[r].st = "live" /\ rules.obj[routes[r].rule].client_max_set)
        => od_client_pool_total(r) <= rules.obj[routes[r].rule].client_max

\* C4 witness: a capped route is full while its client is attached to a server,
\* and another client was refused on it
C4_Witness ==
    \E r \in RouteIds :
        /\ routes[r].st = "live" /\ rules.obj[routes[r].rule].client_max_set
        /\ od_client_pool_total(r) = rules.obj[routes[r].rule].client_max
        /\ \E c \in Clients : cl[c].pool = r /\ cl[c].state = "active"
        /\ \E c \in Clients : ret[c] = "ERROR_LIMIT_ROUTE"

\* the references router.c holds on a rule: one per route call that reserved
\* and was not given back (the client keeps it in client->rule), one per route
\* the configuration installed, less one per route that gc freed
RuleRefs(r) ==
    Cardinality({c \in Clients : cl[c].rule = r})
    + Cardinality({c \in Reserved : loc[c].rule = r})
    + Cardinality({x \in RouteIds : routes[x].st # "none" /\ ~routes[x].dynamic
                                     /\ routes[x].rule = r})
    - Cardinality({x \in RouteIds : routes[x].st = "freed" /\ routes[x].rule = r})

\* C5: a route call refused with ERROR_LIMIT_ROUTE leaves nothing behind: the
\* client is in no pool, client->rule and client->route are not set, the task
\* holds no lock, and neither router.clients nor the rule's refcount counts it
C5_RouteTransactional ==
    /\ \A c \in Clients :
         ret[c] = "ERROR_LIMIT_ROUTE"
         => /\ pc[c] = "done"
            /\ cl[c] = ClientInit
            /\ loc[c] = LocInit
            /\ ~HoldsLock(c)
    /\ clients = Cardinality(Held \ Leaving) + Cardinality(Reserved)
    /\ \A r \in RuleIds : rules.obj[r].ref = RuleRefs(r)

\* C5 witness: a client was refused with ERROR_LIMIT_ROUTE while the route's
\* one admitted client is still counted
C5_Witness ==
    /\ \E c \in Clients : ret[c] = "ERROR_LIMIT_ROUTE"
    /\ clients = 1 /\ Cardinality(Held) = 1

\* C1: an attach that found no idle server leaves the search loop at the
\* pool_size check, whatever pool_size is: it drops the route lock and goes on
\* to allocate a server
C1_AttachLeavesLoop ==
    [][\A c \in Clients :
         (pc[c] = "attach_check" /\ pc'[c] # "attach_check")
         => (pc'[c] = "attach_alloc" /\ rlock'[cl[c].route] = NULL)]_vars

\* the tasks about to take the router lock: route (router.c:210), the
\* rollback of route (router.c:264), unroute (router.c:287)
RequestsRouterLock(c) == pc[c] \in {"start", "route_rollback"}
\* the tasks blocked on the lock of route r: the hand-off of route, the second
\* half of unroute, attach, detach, close
WaitsRoute(c, r) ==
    /\ rlock[r] # NULL
    /\ \/ pc[c] = "route_handoff" /\ loc[c].route = r
       \/ /\ pc[c] \in {"unroute_pool", "attach_relock", "detach_pool", "close_pool"}
          /\ cl[c].route = r

\* the lock order of router.c: a task that holds a route lock does not ask for
\* the router lock, and no task holds two route locks
LockOrder ==
    /\ \A c \in Clients :
         (\E r \in RouteIds : rlock[r] = c) => ~RequestsRouterLock(c)
    /\ \A t \in Clients \cup {Maint} :
         Cardinality({r \in RouteIds : rlock[r] = t}) <= 1
    /\ \A r \in RouteIds : rlock[r] = Maint => lock = Maint

\* C6: the lock order is kept, and a task waiting for a route lock can always
\* eventually proceed: the lock it waits for is released
C6_LockHierarchy ==
    /\ []LockOrder
    /\ \A r \in RouteIds :
         (\E c \in Clients : WaitsRoute(c, r)) ~> (rlock[r] = NULL)

\* the route lock is held by an attach (detach and close take and drop it
\* within one step)
HeldByAttach(r) ==
    rlock[r] # NULL /\ pc[rlock[r]] \in {"attach_next", "attach_check", "attach_set"}

\* C7: whenever a route's lock is not held by attach, detach or close, every
\* ACTIVE server of the route has a client whose server it is and whose route
\* is the server's, every IDLE server has no client, and server->client and
\* client->server mirror each other
C7_CrossLink ==
    \A r \in RouteIds :
        (routes[r].st = "live" /\ ~HeldByAttach(r))
        => /\ \A s \in ServerPool(r, "active") :
                /\ sv[s].client # NULL
                /\ cl[sv[s].client].server = s
                /\ cl[sv[s].client].route = sv[s].route
           /\ \A s \in ServerPool(r, "idle") : sv[s].client = NULL
           /\ \A s \in ServerIds, c \in Clients :
                sv[s].route = r => (sv[s].client = c <=> cl[c].server = s)

\* the client a wire key was forged for
Owner(key) == CHOOSE c \in Clients : Key(c) = key
\* the clients a server is bound to, or being bound to by an attach that has
\* made it ACTIVE (router.c:345) and not yet written the links (router.c:349)
BoundTo(s) ==
    {c \in Clients : sv[s].client = c \/ (pc[c] = "attach_link" /\ loc[c].server = s)}

\* C8: a cancel that matches a server (and so returns OK with its id) matches
\* the server of the client that owns the key, never one that is bound to
\* another client
C8_CancelTarget ==
    [][(sw.op = "cancel" /\ sw'.op = "cancel" /\ sw.rc = 0 /\ sw'.rc = 1)
       => BoundTo(sw'.id) = {Owner(sw.arg)}]_vars

\* C9: with a distinct key per client, at most one ACTIVE server carries a
\* given client's key in key_client
C9_CancelUnique ==
    \A c \in Clients :
        Cardinality({s \in ServerIds : sv[s].state = "active"
                                       /\ sv[s].key_client = Key(c)}) <= 1

\* a step of od_router_cancel_cb on the next route of the walk
CancelCbStep == sw.op = "cancel" /\ sw'.op = "cancel" /\ sw' # sw
\* the return of od_router_cancel
CancelReturn == sw.op = "cancel" /\ sw'.op = "idle"
\* what od_router_cancel_cb finds on the route it examines: a match exactly
\* when the route has an ACTIVE server with the key, and then that server's id
\* and the copy of the route rule's storage, or no copy
CancelExamines ==
    LET route == Head(sw.todo)
        match == {s \in ServerPool(route, "active") : sv[s].key_client = sw.arg}
    IN /\ sw.id = NULL
       /\ match = {} => sw'.id = NULL /\ sw'.rc = 0 /\ sw'.todo = Tail(sw.todo)
       /\ match # {} => /\ sw'.id \in match
                        /\ sw'.storage \in {NULL, routes[route].rule}
                        /\ sw'.rc = IF sw'.storage = NULL THEN -1 ELSE 1
                        /\ sw'.todo = <<>>

\* C10 as claimed: cancel returns OK exactly when an examined route had an
\* ACTIVE server with the key, and ERROR_NOT_FOUND otherwise
C10_CancelOkIffMatch ==
    [][/\ CancelCbStep => CancelExamines
       /\ CancelReturn => /\ sw'.status = "OK" <=> sw.id # NULL
                          /\ sw'.status \in {"OK", "ERROR_NOT_FOUND"}]_vars

\* C10 as amended: cancel returns OK exactly when an examined route had an
\* ACTIVE server with the key and the copy of its rule's storage succeeded;
\* it returns ERROR_NOT_FOUND when no route had one and when the copy failed.
\* With OK go the matched server's id and the copy of the storage
C10_CancelOkIffMatchAndCopy ==
    [][/\ CancelCbStep => CancelExamines
       /\ CancelReturn => /\ sw'.status = "OK" <=> (sw.id # NULL /\ sw.storage # NULL)
                          /\ sw'.status \in {"OK", "ERROR_NOT_FOUND"}]_vars

\* C10 witness: a cancel that matched a server returned OK
C10_Witness == sw.status = "OK"

\* the routes linked in the route pool
Linked == {route_pool[i] : i \in 1..Len(route_pool)}
\* a step of od_router_gc_cb on the next route of the walk
GcCbStep == sw.op = "gc" /\ sw'.op = "gc" /\ sw' # sw
\* what the claim lets gc remove: a route without clients and without servers
\* that is dynamic or whose rule is obsolete
GcEligible(r) ==
    /\ od_client_pool_total(r) = 0
    /\ ServerPool(r, "idle") = {} /\ ServerPool(r, "active") = {}
    /\ routes[r].dynamic \/ rules.obj[routes[r].rule].obsolete

\* C11: a gc sweep removes the route it examines exactly when the route has no
\* client and no server and is dynamic or of an obsolete rule; a removal takes
\* that one route out of the pool (count - 1) and drops one reference of its
\* rule; nothing else takes a route out of the pool
C11_GcCorrect ==
    [][/\ GcCbStep =>
            LET r == Head(sw.todo)
                rule == routes[r].rule
            IN /\ r \in Linked
               /\ (r \notin Linked') <=> GcEligible(r)
               /\ Linked \ Linked' \subseteq {r}
               /\ GcEligible(r) =>
                    /\ Len(route_pool') = Len(route_pool) - 1
                    /\ routes'[r].st = "freed"
                    /\ rules'.obj[rule].ref = rules.obj[rule].ref - 1
                    /\ \A q \in RuleIds \ {rule} : rules'.obj[q] = rules.obj[q]
               /\ ~GcEligible(r) => UNCHANGED <<route_pool, routes, rules>>
       /\ (Linked \ Linked' # {}) => GcCbStep]_vars

\* C11 witness: a gc sweep has removed one route and left another, which has
\* a client, in the pool
C11_Witness ==
    /\ sw.op = "gc" /\ sw.todo = <<>>
    /\ \E r \in RouteIds : routes[r].st = "freed"
    /\ \E r \in Linked : od_client_pool_total(r) > 0

\* a step of od_router_expire_cb on the next route of the walk
ExpireCbStep == sw.op = "expire" /\ sw'.op = "expire" /\ sw' # sw
\* router.c:118 the route is expired by obsoletion: its rule is obsolete and it
\* has no client
ExpiredByObsoletion(r) ==
    rules.obj[routes[r].rule].obsolete /\ od_client_pool_total(r) = 0

\* C12: the expire sweep of a route whose rule is obsolete and which has no
\* client moves every idle server of the route out of its server pool into
\* the expire list and counts it, so that the pool total is 0 afterwards (the
\* next gc removes the route, and no later sweep finds the servers again)
C12_ExpireObsolete ==
    [][ExpireCbStep =>
         LET r == Head(sw.todo)
             idle == ServerPool(r, "idle")
         IN ExpiredByObsoletion(r) =>
              /\ idle \subseteq sw'.out
              /\ sw'.count = sw.count + Cardinality(idle)
              /\ \A s \in idle : ~(sv'[s].route = r /\ sv'[s].state = "idle")
              /\ {s \in ServerIds : sv'[s].route = r
                                     /\ sv'[s].state \in {"idle", "active"}} = {}]_vars

\* what C13 says of one idle server s of route r in one sweep: below pool_ttl
\* it stays idle, one tick older, and out of the expire list; at pool_ttl it
\* leaves the pool (UNDEF) for the expire list; with no pool_ttl it is left alone
Ticks(r, s) ==
    LET ttl == rules.obj[routes[r].rule].pool_ttl
    IN IF ttl = 0 \/ sv[s].idle_time < ttl
       THEN /\ sv'[s].state = "idle" /\ sv'[s].route = r
            /\ sv'[s].idle_time = sv[s].idle_time + (IF ttl = 0 THEN 0 ELSE 1)
            /\ s \notin sw'.out
       ELSE /\ sv'[s].state = "undef"
            /\ s \in sw'.out \ sw.out
\* a server becomes idle with idle_time 0, and one that has left the pools for
\* the expire list does not come back, so it is appended once
IdleFromZero ==
    \A s \in ServerIds :
        /\ (sv[s].state # "idle" /\ sv'[s].state = "idle") => sv'[s].idle_time = 0
        /\ sv[s] = ServerExpired => sv'[s] = ServerExpired

\* C13 as claimed: in every expire sweep, every idle server below its route's
\* pool_ttl stays idle and out of the expire list, a server idle for pool_ttl
\* sweeps is moved out on the next, once, and with no pool_ttl none is expired
C13_ExpireMonotone ==
    [][/\ ExpireCbStep =>
            \A s \in ServerPool(Head(sw.todo), "idle") : Ticks(Head(sw.todo), s)
       /\ IdleFromZero]_vars

\* C13 as amended: the same, for the sweep of a route that is not expired by
\* obsoletion, i.e. whose rule is not obsolete or which has a client
C13_ExpireMonotoneLive ==
    [][/\ (ExpireCbStep /\ ~ExpiredByObsoletion(Head(sw.todo))) =>
            /\ \A s \in ServerPool(Head(sw.todo), "idle") : Ticks(Head(sw.todo), s)
            /\ sw'.count = sw.count + Cardinality(sw'.out \ sw.out)
       /\ IdleFromZero]_vars

\* C13 witness: a sweep has moved a server that was idle for pool_ttl sweeps
\* to the expire list, and left a route with its idle server one tick older
C13_Witness ==
    /\ sw.op = "expire"
    /\ \E s \in sw.out : sv[s] = ServerExpired
    /\ sw.count = 1

\* the routes made for rule r, all of them by od_router_route (dynamic)
RoutesOf(r) == {x \in RouteIds : routes[x].st # "none" /\ routes[x].rule = r}
\* rule r was obsoleted by a reconfigure and has drained: it had routes, gc has
\* removed them all (so their servers are gone), no client is routed under it
\* and no route call holds a reservation on it
Drained(r) ==
    /\ rules.obj[r].obsolete
    /\ RoutesOf(r) # {}
    /\ \A x \in RoutesOf(r) : routes[x].dynamic /\ routes[x].st = "freed"
    /\ \A c \in Clients : ~(cl[c].rule = r /\ cl[c].route # NULL)
    /\ \A c \in Reserved : loc[c].rule # r

\* C14: once an obsoleted rule has drained its refcount is zero and the rule
\* is freed, however many clients were routed through it; and the refcount is
\* above zero as long as a route made for the rule is in the pool
C14_RefcountBalance ==
    \A r \in RuleIds :
        /\ Drained(r) => (rules.obj[r].ref = 0 /\ rules.obj[r].freed)
        /\ (\E x \in RoutesOf(r) : routes[x].dynamic /\ routes[x].st = "live")
           => rules.obj[r].ref > 0

\* the clients in the client pool of route r
ClientPool(r) == {c \in Clients : cl[c].pool = r /\ cl[c].state # "undef"}
\* the steps of od_router_reconfigure: the merge, the callback on the next
\* route, the return
ReconfigureMerge == sw.op = "idle" /\ sw'.op = "reconfigure"
ReconfigureCbStep == sw.op = "reconfigure" /\ sw'.op = "reconfigure" /\ sw' # sw
ReconfigureReturn == sw.op = "reconfigure" /\ sw'.op = "idle"

\* C15: reconfigure returns the update count of the merge; with a count above
\* zero every client in the pool of a route of an obsolete rule is killed
\* before the return and no client of another route is killed by it; with a
\* count of zero it kills nobody. It holds the router lock from the merge to
\* the return, so no route call matches a rule in between
C15_ReconfigureDrain ==
    [][/\ ReconfigureMerge =>
            \E n \in NewRules :
                /\ rules' = od_rules_merge(rules, n).rules
                /\ sw'.count = od_rules_merge(rules, n).updates
                /\ sw'.count = 0 => sw'.todo = <<>>
                /\ cl' = cl
       /\ ReconfigureCbStep =>
            /\ sw.count > 0 /\ sw'.count = sw.count /\ rules' = rules
            /\ \A c \in Clients :
                 IF c \in ClientPool(Head(sw.todo))
                    /\ rules.obj[routes[Head(sw.todo)].rule].obsolete
                 THEN cl'[c].killed
                 ELSE cl'[c] = cl[c]
       /\ ReconfigureReturn =>
            /\ cl' = cl /\ rules' = rules
            /\ \A r \in Linked :
                 (sw.count > 0 /\ rules.obj[routes[r].rule].obsolete)
                 => \A c \in ClientPool(r) : cl[c].killed
       /\ sw.op = "reconfigure" =>
            /\ lock = Maint /\ lock' = (IF ReconfigureReturn THEN NULL ELSE Maint)
            /\ \A c \in Clients : pc[c] # "route_match" /\ pc'[c] # "route_match"]_vars

\* C15 witness: a reconfigure with updates is about to return; it has killed
\* the client of an obsolete rule's route
C15_Witness ==
    /\ sw.op = "reconfigure" /\ sw.todo = <<>> /\ sw.count > 0
    /\ \E r \in Linked :
         /\ rules.obj[routes[r].rule].obsolete
         /\ \E c \in ClientPool(r) : cl[c].killed

\* the step of od_router_attach that binds client c: its server goes ACTIVE
\* (router.c:345)
AttachBinds(c) == pc[c] = "attach_set" /\ pc'[c] = "attach_link"

\* C16: when attach binds a client, the server it makes ACTIVE is an IDLE
\* server of the route if the route has one at that moment; a freshly
\* allocated server is bound only when the route has no IDLE server
C16_ServerReuse ==
    [][\A c \in Clients :
         AttachBinds(c) =>
           (ServerPool(cl[c].route, "idle") # {}
            => loc[c].server \in ServerPool(cl[c].route, "idle"))]_vars

\* the clients in the ACTIVE set of the client pool of route r
ClientsActive(r) == {c \in Clients : cl[c].pool = r /\ cl[c].state = "active"}

\* C17: whenever a route's lock is free, its client pool has as many ACTIVE
\* clients as its server pool has ACTIVE servers
C17_PairedTransitions ==
    \A r \in Linked :
        rlock[r] = NULL
        => Cardinality(ClientsActive(r)) = Cardinality(ServerPool(r, "active"))

\* C17 witness: a route with its lock free after an attach, a detach and
\* another attach: one ACTIVE pair, and a server in the IDLE set
C17_Witness ==
    \E r \in Linked :
        /\ rlock[r] = NULL
        /\ Cardinality(ClientsActive(r)) = 1
        /\ Cardinality(ServerPool(r, "active")) = 1
        /\ ServerPool(r, "idle") # {}

\* the steps in which client c's task calls into the backend or the io layer:
\* server allocation and id generation (attach), io attach (attach), io detach
\* (detach), od_backend_close_connection (close)
BackendCall(c) ==
    \/ pc[c] = "attach_alloc" /\ pc'[c] # "attach_alloc"
    \/ pc[c] = "attach_link" /\ pc'[c] # "attach_link"
    \/ pc[c] = "attached" /\ pc'[c] \in {"detach_pool", "close_pool"}

\* C18: a task that calls into the backend or the io layer holds neither the
\* router lock nor a route lock, before the call and after it
C18_NoBackendUnderLock ==
    [][\A c \in Clients :
         BackendCall(c) =>
           /\ lock # c /\ lock' # c
           /\ \A r \in RouteIds : rlock[r] # c /\ rlock'[r] # c]_vars

\* C18 witness: one client has allocated its server outside the lock and is
\* waiting to lock the route again, the other has closed its backend connection
C18_Witness ==
    \E c, d \in Clients : pc[c] = "attach_relock" /\ pc[d] = "close_pool"

\* C19: a route call is refused with ERROR_LIMIT only when at least
\* config.client_max clients are in the client pools at the moment of the check
C19_NoSpuriousLimit ==
    [][\A c \in Clients :
         (pc[c] = "route_match" /\ pc'[c] = "done" /\ ret'[c] = "ERROR_LIMIT")
         => Cardinality(Held) >= config.client_max]_vars

\* client c's task has the pointer of route r and will lock or dereference it:
\* a route call handed to the route (router.c:257-276), or a client whose
\* client->route is r (attach, detach, close, and unroute up to line 295)
UsesRoute(c, r) ==
    \/ pc[c] \in {"route_handoff", "route_admit"} /\ loc[c].route = r
    \/ cl[c].route = r

\* C20: a route that gc has unlinked and freed is not client->route of any
\* client, is not locked, is not the route of a call that will lock or
\* dereference it, and is not ahead on the walk of a sweep
C20_NoUseAfterGc ==
    \A r \in RouteIds :
        routes[r].st = "freed"
        => /\ rlock[r] = NULL
           /\ \A c \in Clients : ~UsesRoute(c, r)
           /\ \A i \in 1..Len(sw.todo) : sw.todo[i] # r
           /\ r \notin Linked

\* C20 witness: gc has freed a route while a route call that was refused on it
\* has not yet rolled back: the call still has the pointer and does not use it
C20_Witness ==
    \E c \in Clients :
        pc[c] = "route_rollback" /\ routes[loc[c].route].st = "freed"

Next ==
    \/ \E c \in Clients : od_router_route_lock(c)
    \/ \E c \in Clients : od_router_route_match(c)
    \/ \E c \in Clients : od_router_route_handoff(c)
    \/ \E c \in Clients : od_router_route_admit(c)
    \/ \E c \in Clients : od_router_route_rollback(c)
    \/ \E c \in Clients : od_router_unroute_count(c)
    \/ \E c \in Clients : od_router_unroute_pool(c)
    \/ \E c \in Clients : od_router_attach_lock(c)
    \/ \E c \in Clients : od_router_attach_next(c)
    \/ \E c \in Clients : od_router_attach_check(c)
    \/ \E c \in Clients : od_router_attach_alloc(c)
    \/ \E c \in Clients : od_router_attach_relock(c)
    \/ \E c \in Clients : od_router_attach_set(c)
    \/ \E c \in Clients : od_router_attach_link(c)
    \/ \E c \in Clients : od_router_detach_io(c)
    \/ \E c \in Clients : od_router_detach_pool(c)
    \/ \E c \in Clients : od_router_close_backend(c)
    \/ \E c \in Clients : od_router_close_pool(c)
    \/ \E n \in NewRules : od_router_reconfigure(n)
    \/ od_router_kill_clients_cb
    \/ od_router_reconfigure_unlock
    \/ od_router_expire
    \/ od_router_expire_cb
    \/ od_router_gc
    \/ od_router_gc_cb
    \/ od_router_stat
    \/ \E key \in Clients : od_router_cancel(Key(key))
    \/ od_router_cancel_cb
    \/ od_router_cancel_unlock
    \/ \E id \in Clients : od_router_kill(id)
    \/ od_router_kill_cb
    \/ od_router_foreach_unlock

Spec == Init /\ [][Next]_vars

\* the steps of one client task, and those of the maintenance task
ClientStep(c) ==
    \/ od_router_route_lock(c) \/ od_router_route_match(c)
    \/ od_router_route_handoff(c) \/ od_router_route_admit(c)
    \/ od_router_route_rollback(c)
    \/ od_router_unroute_count(c) \/ od_router_unroute_pool(c)
    \/ od_router_attach_lock(c) \/ od_router_attach_next(c)
    \/ od_router_attach_check(c) \/ od_router_attach_alloc(c)
    \/ od_router_attach_relock(c) \/ od_router_attach_set(c)
    \/ od_router_attach_link(c)
    \/ od_router_detach_io(c) \/ od_router_detach_pool(c)
    \/ od_router_close_backend(c) \/ od_router_close_pool(c)
MaintStep ==
    \/ od_router_kill_clients_cb \/ od_router_reconfigure_unlock
    \/ od_router_expire_cb \/ od_router_gc_cb
    \/ od_router_cancel_cb \/ od_router_cancel_unlock
    \/ od_router_kill_cb \/ od_router_foreach_unlock

\* every task is a thread that keeps running: a step it can take for good, it
\* takes
FairSpec ==
    /\ Spec
    /\ \A c \in Clients : WF_vars(ClientStep(c))
    /\ WF_vars(MaintStep)
=============================================================================
